---- MODULE Spec2Model ----
(***************************************************************************)
(* Verification model of the multi-source retrieval repository:            *)
(*   - UnifiedIngestionManager (content store with hash deduplication),    *)
(*   - the ingesters that feed it (PDF pages, web pages, CSV rows),        *)
(*   - AdvancedQueryEngine (index build / retriever set-up / query),       *)
(*   - BM25Retriever._retrieve (top-k selection over keyword scores),      *)
(*   - HybridRetriever (reciprocal rank fusion), SimpleReranker,           *)
(*   - the Streamlit front end (build and ask handlers).                   *)
(* Texts are sequences of one-character strings, so that stripping,        *)
(* splitting and joining are computed, character by character, the way the *)
(* Python string methods compute them.                                     *)
(***************************************************************************)
EXTENDS Integers, Sequences, FiniteSets, TLC

\* ------------------------------------------------------------------ bounds
MaxRawLen == 1      \* longest raw text an external source hands over
MaxBatch == 1       \* most items (pages, rows, urls) in one add_* call
MaxDocs == 2        \* most chunks held by the store
MaxSources == 2     \* most entries tracked in sources_added

\* ------------------------------------------------------------------- texts
\* one letter and two kinds of whitespace (a blank and a line break)
Alphabet == {"a", " ", "\n"}

RawTexts == UNION {[1..n -> Alphabet] : n \in 0..MaxRawLen}

\* str.isspace() for one character
IsSpace(c) == c \in {" ", "\n"}

RECURSIVE LStrip(_)
LStrip(s) ==
    IF s = <<>> THEN <<>>
    ELSE IF IsSpace(Head(s)) THEN LStrip(Tail(s))
    ELSE s

RECURSIVE RStrip(_)
RStrip(s) ==
    IF s = <<>> THEN <<>>
    ELSE IF IsSpace(s[Len(s)]) THEN RStrip(SubSeq(s, 1, Len(s) - 1))
    ELSE s

\* str.strip()
Strip(s) == RStrip(LStrip(s))

RECURSIVE SplitAcc(_, _, _)
SplitAcc(s, cur, acc) ==
    IF s = <<>> THEN (IF cur = <<>> THEN acc ELSE Append(acc, cur))
    ELSE IF IsSpace(Head(s))
         THEN SplitAcc(Tail(s), <<>>, IF cur = <<>> THEN acc ELSE Append(acc, cur))
         ELSE SplitAcc(Tail(s), Append(cur, Head(s)), acc)

\* str.split() without arguments: the maximal runs of non-whitespace
Split(s) == SplitAcc(s, <<>>, <<>>)

RECURSIVE Join(_)
\* ' '.join(tokens)
Join(toks) ==
    IF toks = <<>> THEN <<>>
    ELSE IF Len(toks) = 1 THEN toks[1]
    ELSE toks[1] \o <<" ">> \o Join(Tail(toks))

\* whitespace normalisation: ' '.join(text.split())
Normalize(s) == Join(Split(s))

\* ---------------------------------------------------------------- hashing
CharCode(c) ==
    CASE c = "a" -> 1
      [] c = " " -> 2
      [] c = "k" -> 3
      [] c = "." -> 4
      [] c = "\n" -> 5

HashBase == 6

RECURSIVE compute_hash_acc(_, _)
compute_hash_acc(s, h) ==
    IF s = <<>> THEN h
    ELSE compute_hash_acc(Tail(s), h * HashBase + CharCode(Head(s)))

\* hashlib.sha256(text.encode()).hexdigest(): a digest of the raw characters,
\* collision-free on the texts of the model (positional encoding in HashBase)
compute_hash(text) == compute_hash_acc(text, 0)

is_duplicate_nomark(text, hashes) ==
    [dup |-> compute_hash(text) \in hashes, hashes |-> hashes]

\* _is_duplicate: the answer, and content_hashes after the call
is_duplicate(text, hashes) ==
    [dup |-> compute_hash(text) \in hashes,
     hashes |-> hashes \cup {compute_hash(text)}]

\* -------------------------------------------------------------- ingesters
Doc(text, st) == [text |-> text, source_type |-> st]

\* the record the ingestion log keeps for one extracted text
Outcome(text, o) == [text |-> text, outcome |-> o]

clean_html(raw) == Normalize(raw)

scrape_url_keep_empty(raw) == <<Doc(clean_html(raw), "web")>>

\* WebScraper.scrape_url: None (no document) when no text was extracted
scrape_url(raw) ==
    IF clean_html(raw) = <<>> THEN <<>> ELSE <<Doc(clean_html(raw), "web")>>

RECURSIVE scrape_urls(_)
scrape_urls(batch) ==
    IF batch = <<>> THEN <<>>
    ELSE scrape_url(Head(batch)) \o scrape_urls(Tail(batch))

\* CSVIngester.row_to_text for a one-column row: "k" stands for the
\* "<column> is " prefix; an empty cell is skipped, the final "." is always added
row_to_text(value) ==
    IF value = <<>> THEN <<".">> ELSE <<"k">> \o value \o <<".">>

RECURSIVE dataframe_to_documents(_)
dataframe_to_documents(batch) ==
    IF batch = <<>> THEN <<>>
    ELSE (IF Strip(row_to_text(Head(batch))) = <<>>
          THEN <<>>
          ELSE <<Doc(row_to_text(Head(batch)), "csv")>>)
         \o dataframe_to_documents(Tail(batch))

RECURSIVE extract_text_from_pdf(_)
\* PDFIngester.extract_text_from_pdf: blank pages are skipped
extract_text_from_pdf(batch) ==
    IF batch = <<>> THEN <<>>
    ELSE (IF Strip(Head(batch)) = <<>> THEN <<>> ELSE <<Doc(Head(batch), "pdf")>>)
         \o extract_text_from_pdf(Tail(batch))

RECURSIVE chunk_documents(_)
\* PDFIngester.chunk_documents: the node parser returns, for a page shorter
\* than chunk_size, one chunk holding the page text with outer whitespace removed
chunk_documents(docs) ==
    IF docs = <<>> THEN <<>>
    ELSE (IF Strip(Head(docs).text) = <<>>
          THEN <<>>
          ELSE <<Doc(Strip(Head(docs).text), "pdf")>>)
         \o chunk_documents(Tail(docs))

\* the text each ingester extracts from one raw item, before its own filter
Extracted(k, raw) ==
    CASE k = "pdfs" -> raw
      [] k = "urls" -> clean_html(raw)
      [] k = "csvs" -> row_to_text(raw)

\* the documents (none or one) an ingester returns for one raw item
Ingest(k, raw) ==
    CASE k = "pdfs" -> chunk_documents(extract_text_from_pdf(<<raw>>))
      [] k = "urls" -> scrape_urls(<<raw>>)
      [] k = "csvs" -> dataframe_to_documents(<<raw>>)

\* ------------------------------------------------------------------- state
VARIABLES
    documents,        \* UnifiedIngestionManager.documents
    content_hashes,   \* UnifiedIngestionManager.content_hashes
    sources_added,    \* UnifiedIngestionManager.sources_added (entries per key)
    pc,               \* "idle", or "adding" while an add_* call is running
    kind,             \* which add_* call is running: "pdfs", "urls", "csvs"
    remaining,        \* raw items (pages, urls, rows) the call has still to visit
    nsrc,             \* how many sources the running call will record
    added_count,      \* added_count of the running call
    last,             \* the latest entry of the ingestion log of the running call
    just_cleared,     \* TRUE from a clear() until the next call starts
    cleared_text,     \* <<t>> for a text t dropped by the last clear(), kept
                      \* until the next add_* call returns; <<>> otherwise
    tpc,              \* concurrent ingestion: where each task is in its insert
    tdoc,             \* concurrent ingestion: the chunk each task is inserting
    tresult,          \* concurrent ingestion: "Added" / "Duplicate" per task
    round_base,       \* concurrent ingestion: len(documents) when the tasks started
    storage,          \* the docstore persisted under storage_dir
    index,            \* AdvancedQueryEngine.index
    nodes,            \* AdvancedQueryEngine.nodes
    vector_retriever, \* AdvancedQueryEngine.vector_retriever
    bm25_retriever,   \* AdvancedQueryEngine.bm25_retriever
    hybrid_retriever, \* AdvancedQueryEngine.hybrid_retriever
    builds,           \* index objects created so far (object identities)
    bpc,              \* where load_or_create_index is
    b_docs,           \* the documents argument of the running / last build
    b_result,         \* "ok" or "raised" for the last build on this engine
    ever_built,       \* a load_or_create_index call has returned normally
    qpc,              \* where query() is
    q_mode,           \* the mode argument of the running / last query
    q_index,          \* the index the query found at its check (line 214)
    q_retriever,      \* the retriever the query selected (line 228)
    q_result,         \* what the last query returned or raised
    bm_status,        \* BM25Retriever: "none", "ready" or "raised"
    bm_size,          \* BM25Retriever: len(self._nodes)
    bm_corpus,        \* BM25Retriever._corpus: the tokens of every node
    bm_idf,           \* BM25Okapi.idf: the sign of the idf of every word
    bm_query,         \* the query tokens of the last _retrieve
    bm_top_k,         \* BM25Retriever._similarity_top_k
    bm_scores,        \* the scores of the last _retrieve, by corpus position
    bm_results,       \* the list the last _retrieve returned
    h_status,         \* HybridRetriever: "none", "ready" or "raised"
    h_retrievers,     \* HybridRetriever: len(self._retrievers)
    h_weights,        \* HybridRetriever._weights, in units of WeightUnit
    h_top_k,          \* HybridRetriever._similarity_top_k
    h_lists,          \* the result lists of the retrievers in the last _retrieve
    h_node_scores,    \* node_scores of the last fusion, in insertion order
    h_fused,          \* the list the last _retrieve returned
    p_nodes,          \* query pipeline: node ids of the built engine, <<>> before a build
    p_top_k,          \* query pipeline: similarity_top_k given to the three retrievers
    p_mode,           \* query pipeline: the mode argument of the last query
    p_limit,          \* query pipeline: the similarity_top_k argument of the last query
    p_failed,         \* query pipeline: the retriever that raised, "none" otherwise
    p_lists,          \* query pipeline: what the asked retrievers returned
    p_result,         \* query pipeline: what the last query returned or raised
    rr_status,        \* SimpleReranker: "none", "ready" or "raised"
    rr_args,          \* SimpleReranker: the three weights the caller passed
    rr_weights,       \* SimpleReranker: the three weights, as numerators over total
    rr_ideal,         \* SimpleReranker.ideal_length
    rr_query,         \* the query of the last rerank
    rr_nodes,         \* the nodes argument of the last rerank
    rr_top_k,         \* the top_k argument of the last rerank
    rr_signals,       \* the three signals of every node in the last rerank
    rr_result,        \* the list the last rerank returned
    held,             \* the list a caller got from get_documents() and kept
    ingestion_manager, \* app.py: st.session_state.ingestion_manager (its documents)
    query_engine,     \* app.py: st.session_state.query_engine
    indexed,          \* app.py: st.session_state.indexed
    storage_streamlit, \* app.py: the docstore persisted under storage_streamlit
    asked             \* app.py: what the last 'Ask' click got from query()

storeVars == <<documents, content_hashes, sources_added>>
callVars == <<pc, kind, remaining, nsrc, added_count, last, just_cleared, cleared_text>>
taskVars == <<tpc, tdoc, tresult, round_base>>
engineVars == <<storage, index, nodes, vector_retriever, bm25_retriever,
                hybrid_retriever, builds, bpc, b_docs, b_result, ever_built,
                qpc, q_mode, q_index, q_retriever, q_result>>
bmVars == <<bm_status, bm_size, bm_corpus, bm_idf, bm_query, bm_top_k, bm_scores, bm_results>>
hybridVars == <<h_status, h_retrievers, h_weights, h_top_k, h_lists,
                h_node_scores, h_fused>>
pipeVars == <<p_nodes, p_top_k, p_mode, p_limit, p_failed, p_lists, p_result>>
rerankVars == <<rr_status, rr_args, rr_weights, rr_ideal, rr_query, rr_nodes, rr_top_k,
                rr_signals, rr_result>>
\* the components modelled further down
appVars == <<ingestion_manager, query_engine, indexed, storage_streamlit, asked>>
laterVars == <<pipeVars, rerankVars, appVars>>
vars == <<storeVars, callVars, taskVars, engineVars, bmVars, hybridVars, laterVars, held>>

\* what the sequential store operations leave alone
outsideStore == <<taskVars, engineVars, bmVars, hybridVars, laterVars, held>>

\* what clear() leaves alone
outsideClear == <<taskVars, engineVars, bmVars, hybridVars, laterVars>>

\* "self.documents = []" binds the attribute to a new list: a list handed
\* out before is no longer the store's list and keeps what it held
Released(h, docs) ==
    [h EXCEPT !.alias = FALSE, !.frozen = IF h.alias THEN docs ELSE h.frozen]

Tasks == {"t1", "t2"}

EmptySources == [pdfs |-> 0, urls |-> 0, csvs |-> 0]

TotalSources == sources_added.pdfs + sources_added.urls + sources_added.csvs

NoOutcome == Outcome(<<>>, "none")

RECURSIVE CountType(_, _)
CountType(docs, st) ==
    IF docs = <<>> THEN 0
    ELSE (IF Head(docs).source_type = st THEN 1 ELSE 0) + CountType(Tail(docs), st)

RECURSIVE TotalChars(_)
TotalChars(docs) ==
    IF docs = <<>> THEN 0 ELSE Len(Head(docs).text) + TotalChars(Tail(docs))

\* get_statistics() on a store holding docs, hashes and srcs
Statistics(docs, hashes, srcs) ==
    [total_documents |-> Len(docs),
     by_source |-> [pdf |-> CountType(docs, "pdf"),
                    web |-> CountType(docs, "web"),
                    csv |-> CountType(docs, "csv")],
     total_characters |-> TotalChars(docs),
     average_doc_length |-> IF docs # <<>> THEN TotalChars(docs) \div Len(docs) ELSE 0,
     sources_added |-> srcs,
     unique_content_hashes |-> Cardinality(hashes)]

get_statistics == Statistics(documents, content_hashes, sources_added)

\* get_documents()
get_documents == documents

TaskInit ==
    /\ tpc = [t \in Tasks |-> "idle"]
    /\ tdoc = [t \in Tasks |-> Doc(<<>>, "none")]
    /\ tresult = [t \in Tasks |-> "none"]
    /\ round_base = 0

StoreInit ==
    /\ documents = <<>>
    /\ content_hashes = {}
    /\ sources_added = EmptySources
    /\ pc = "idle"
    /\ kind = "none"
    /\ remaining = 0
    /\ nsrc = 0
    /\ added_count = 0
    /\ last = NoOutcome
    /\ just_cleared = FALSE
    /\ cleared_text = <<>>

\* add_pdfs / add_urls / add_csvs is entered with n raw items to read and will
\* record s sources.  The items are input from outside the program: each is
\* drawn when the call reaches it.
AddBegin(k, n, s) ==
    /\ pc = "idle"
    /\ TotalSources + s <= MaxSources
    /\ pc' = "adding"
    /\ kind' = k
    /\ remaining' = n
    /\ nsrc' = s
    /\ added_count' = 0
    /\ last' = NoOutcome
    /\ just_cleared' = FALSE
    /\ UNCHANGED <<storeVars, cleared_text, outsideStore>>

add_pdfs_begin == \E n \in 1..MaxBatch : AddBegin("pdfs", n, 1)

add_urls_begin == \E n \in 1..MaxBatch : AddBegin("urls", n, n)

add_csvs_begin == \E n \in 1..MaxBatch : AddBegin("csvs", n, 1)

\* ingest_directory raises (directory not found): caught, the call returns 0
add_dir_fail ==
    /\ pc = "idle"
    /\ just_cleared' = FALSE
    /\ cleared_text' = <<>>
    /\ UNCHANGED <<storeVars, pc, kind, remaining, nsrc, added_count, last, outsideStore>>

\* the ingester returned no document for the next raw item
add_skip ==
    /\ pc = "adding"
    /\ remaining > 0
    /\ \E raw \in RawTexts :
          /\ Ingest(kind, raw) = <<>>
          /\ last' = Outcome(Extracted(kind, raw), "RejectedEmpty")
    /\ remaining' = remaining - 1
    /\ UNCHANGED <<storeVars, pc, kind, nsrc, added_count, just_cleared, cleared_text, outsideStore>>

add_insert_always_append ==
    /\ pc = "adding"
    /\ remaining > 0
    /\ \E raw \in RawTexts :
          /\ Ingest(kind, raw) # <<>>
          /\ LET d == Ingest(kind, raw)[1]
                 r == is_duplicate(d.text, content_hashes)
             IN /\ (r.dup \/ Len(documents) < MaxDocs)
                /\ content_hashes' = r.hashes
                /\ documents' = Append(documents, d)
                /\ added_count' = IF r.dup THEN added_count ELSE added_count + 1
                /\ last' = Outcome(d.text, IF r.dup THEN "Duplicate" ELSE "Added")
    /\ remaining' = remaining - 1
    /\ UNCHANGED <<sources_added, pc, kind, nsrc, just_cleared, cleared_text, outsideStore>>

\* one iteration of "if not self._is_duplicate(x.text): append; added_count += 1"
add_insert ==
    /\ pc = "adding"
    /\ remaining > 0
    /\ \E raw \in RawTexts :
          /\ Ingest(kind, raw) # <<>>
          /\ LET d == Ingest(kind, raw)[1]
                 r == is_duplicate(d.text, content_hashes)
             IN /\ (r.dup \/ Len(documents) < MaxDocs)
                /\ content_hashes' = r.hashes
                /\ documents' = IF r.dup THEN documents ELSE Append(documents, d)
                /\ added_count' = IF r.dup THEN added_count ELSE added_count + 1
                /\ last' = Outcome(d.text, IF r.dup THEN "Duplicate" ELSE "Added")
    /\ remaining' = remaining - 1
    /\ UNCHANGED <<sources_added, pc, kind, nsrc, just_cleared, cleared_text, outsideStore>>

\* after the loop: track the source, return added_count; the locals are gone
add_end ==
    /\ pc = "adding"
    /\ remaining = 0
    /\ sources_added' = [sources_added EXCEPT ![kind] = @ + nsrc]
    /\ pc' = "idle"
    /\ kind' = "none"
    /\ nsrc' = 0
    /\ added_count' = 0
    /\ last' = NoOutcome
    /\ cleared_text' = <<>>
    /\ UNCHANGED <<documents, content_hashes, remaining, just_cleared, outsideStore>>

clear_keep_documents ==
    /\ pc = "idle"
    /\ documents' = documents
    /\ content_hashes' = {}
    /\ sources_added' = EmptySources
    /\ just_cleared' = TRUE
    /\ cleared_text' = IF documents = <<>> THEN <<>> ELSE <<documents[1].text>>
    /\ held' = Released(held, documents)
    /\ UNCHANGED <<pc, kind, remaining, nsrc, added_count, last, outsideClear>>

clear_keep_hashes ==
    /\ pc = "idle"
    /\ documents' = <<>>
    /\ content_hashes' = content_hashes
    /\ sources_added' = EmptySources
    /\ just_cleared' = TRUE
    /\ cleared_text' = IF documents = <<>> THEN <<>> ELSE <<documents[1].text>>
    /\ held' = Released(held, documents)
    /\ UNCHANGED <<pc, kind, remaining, nsrc, added_count, last, outsideClear>>

\* clear()
clear ==
    /\ pc = "idle"
    /\ documents' = <<>>
    /\ content_hashes' = {}
    /\ sources_added' = EmptySources
    /\ just_cleared' = TRUE
    /\ cleared_text' = IF documents = <<>> THEN <<>> ELSE <<documents[1].text>>
    /\ held' = Released(held, documents)
    /\ UNCHANGED <<pc, kind, remaining, nsrc, added_count, last, outsideClear>>

StoreNext ==
    \/ add_pdfs_begin
    \/ add_urls_begin
    \/ add_csvs_begin
    \/ add_dir_fail
    \/ add_skip
    \/ add_insert
    \/ add_end
    \/ clear

\* a retriever or index attribute that is None
NoObject == [gen |-> 0, nodes |-> <<>>]

NoHybrid == [gen |-> 0, vector |-> NoObject, bm25 |-> NoObject]

NoResult == [status |-> "none", searched |-> <<>>]

\* AdvancedQueryEngine.__init__; nothing is persisted under storage_dir yet
EngineInit ==
    /\ storage = [exists |-> FALSE, nodes |-> <<>>]
    /\ index = NoObject
    /\ nodes = NoObject
    /\ vector_retriever = NoObject
    /\ bm25_retriever = NoObject
    /\ hybrid_retriever = NoHybrid
    /\ builds = 0
    /\ bpc = "idle"
    /\ b_docs = <<>>
    /\ b_result = "none"
    /\ ever_built = FALSE
    /\ qpc = "idle"
    /\ q_mode = "none"
    /\ q_index = NoObject
    /\ q_retriever = NoHybrid
    /\ q_result = NoResult

\* no BM25Retriever has been constructed
BM25Init ==
    /\ bm_status = "none"
    /\ bm_size = 0
    /\ bm_corpus = <<>>
    /\ bm_idf = <<>>
    /\ bm_query = <<>>
    /\ bm_top_k = 0
    /\ bm_scores = <<>>
    /\ bm_results = <<>>

\* no HybridRetriever has been constructed
HybridInit ==
    /\ h_status = "none"
    /\ h_retrievers = 0
    /\ h_weights = <<>>
    /\ h_top_k = 0
    /\ h_lists = <<>>
    /\ h_node_scores = <<>>
    /\ h_fused = <<>>

\* no engine has been set up for the query pipeline
PipeInit ==
    /\ p_nodes = <<>>
    /\ p_top_k = 0
    /\ p_mode = "none"
    /\ p_limit = 0
    /\ p_failed = "none"
    /\ p_lists = <<>>
    /\ p_result = [status |-> "none", sources |-> <<>>, stages |-> <<>>,
                   warnings |-> <<>>]

\* no SimpleReranker has been constructed
RerankInit ==
    /\ rr_status = "none"
    /\ rr_args = <<>>
    /\ rr_weights = [score |-> 0, length |-> 0, keyword |-> 0, total |-> 0]
    /\ rr_ideal = 0
    /\ rr_query = <<>>
    /\ rr_nodes = <<>>
    /\ rr_top_k = 0
    /\ rr_signals = <<>>
    /\ rr_result = <<>>

\* no caller holds a list of the store
NotHeld == [taken |-> FALSE, alias |-> FALSE, at_take |-> <<>>, frozen |-> <<>>]

\* a query_engine that is None
NoEngine == [made |-> FALSE, index |-> <<>>, loaded |-> FALSE, retrievers |-> FALSE]

NotAsked == [status |-> "none", mode |-> "none", searched |-> <<>>]

\* init_session_state, on an installation without a storage_streamlit
\* directory
AppInit ==
    /\ ingestion_manager = <<>>
    /\ query_engine = NoEngine
    /\ indexed = FALSE
    /\ storage_streamlit = [exists |-> FALSE, nodes |-> <<>>]
    /\ asked = NotAsked

Init == StoreInit /\ TaskInit /\ EngineInit /\ BM25Init /\ HybridInit
        /\ PipeInit /\ RerankInit /\ AppInit /\ held = NotHeld

\* one UnifiedIngestionManager used by one caller at a time
Spec == Init /\ [][StoreNext]_vars

\* ------------------------------------------------- claims on the store (Spec)
Count(text) == Cardinality({i \in DOMAIN documents : documents[i].text = text})

Inserted == last.outcome \in {"Added", "Duplicate"}

\* the step just taken visited one raw item of the running add_* call
VisitStep == pc = "adding" /\ remaining' = remaining - 1

\* C1 as stated: no two stored chunks have texts that are identical after
\* whitespace normalisation, whatever add_* calls put them there.
C1_NormalizedDedup ==
    \A i, j \in DOMAIN documents :
        Normalize(documents[i].text) = Normalize(documents[j].text) => i = j

\* C1 amended: no two stored chunks have the same text character for character,
\* and a text that has just been inserted (as new or as a duplicate, from any
\* source type) is stored exactly once.
C1_ExactDedup ==
    /\ \A i, j \in DOMAIN documents : documents[i].text = documents[j].text => i = j
    /\ Inserted => Count(last.text) = 1

\* a PDF chunk was found to duplicate a chunk that came from a web page
C1_Witness ==
    /\ kind = "pdfs"
    /\ last.outcome = "Duplicate"
    /\ \E i \in DOMAIN documents :
          documents[i].text = last.text /\ documents[i].source_type = "web"

\* C2: unique_content_hashes never exceeds total_documents, after any sequence
\* of add_pdfs, add_urls, add_csvs and clear.
C2_HashesAtMostDocuments ==
    get_statistics.unique_content_hashes <= get_statistics.total_documents

\* two chunks from different source types are stored, each with its hash
C2_Witness ==
    /\ get_statistics.unique_content_hashes = 2
    /\ get_statistics.by_source.csv = 1
    /\ get_statistics.by_source.pdf = 1

C5_EmptyRejected ==
    /\ [](/\ (last.outcome # "none" /\ Strip(last.text) = <<>>)
               => last.outcome = "RejectedEmpty"
          /\ \A i \in DOMAIN documents : Strip(documents[i].text) # <<>>
          /\ \A raw \in RawTexts :
                Strip(raw) = <<>> => compute_hash(raw) \notin content_hashes)
    /\ [][(VisitStep /\ last'.outcome = "RejectedEmpty")
            => (documents' = documents /\ content_hashes' = content_hashes)]_vars

\* an empty web page was rejected by a store that already holds a chunk
C5_Witness ==
    /\ kind = "urls"
    /\ last.outcome = "RejectedEmpty"
    /\ Len(documents) >= 1

\* C6: right after clear() the store has no documents and no fingerprints, and
\* an insert of a text that is not stored at that moment is Added, never
\* Duplicate, so a text dropped by clear() is accepted as new when it comes again.
C6_ClearDropsAll ==
    /\ [](just_cleared =>
            (get_documents = <<>> /\ get_statistics.unique_content_hashes = 0))
    /\ [][(VisitStep /\ last'.outcome \in {"Added", "Duplicate"}
             /\ Count(last'.text) = 0)
            => last'.outcome = "Added"]_vars

\* the text that clear() dropped has been inserted again and was Added
C6_Witness ==
    /\ cleared_text # <<>>
    /\ last = Outcome(cleared_text[1], "Added")

\* ------------------------------------------ concurrent ingestion (SpecConc)
\* Two tasks insert one chunk each into the same manager.  _is_duplicate and the
\* loop body hold no lock, so the membership test (line 145), the add to
\* content_hashes (line 150) and the append to documents (line 179) of one task
\* interleave freely with those of the other.
Active == {t \in Tasks : tpc[t] \in {"check", "mark", "append"}}

\* the chunks the ingesters can hand to the loop
Chunks == {Ingest(k, raw)[1] : <<k, raw>> \in
              {kr \in {"pdfs", "urls", "csvs"} \X RawTexts : Ingest(kr[1], kr[2]) # <<>>}}

\* a task reaches the loop body with chunk d
t_begin(t) ==
    /\ pc = "idle"
    /\ tpc[t] = "idle"
    /\ Len(documents) + Cardinality(Active) < MaxDocs
    /\ \E d \in Chunks : tdoc' = [tdoc EXCEPT ![t] = d]
    /\ tpc' = [tpc EXCEPT ![t] = "check"]
    /\ tresult' = [tresult EXCEPT ![t] = "none"]
    /\ round_base' = IF \A u \in Tasks : tpc[u] = "idle" THEN Len(documents) ELSE round_base
    /\ UNCHANGED <<storeVars, callVars, engineVars, bmVars, hybridVars, laterVars, held>>

\* _is_duplicate, "if content_hash in self.content_hashes: return True"
t_check(t) ==
    /\ tpc[t] = "check"
    /\ IF compute_hash(tdoc[t].text) \in content_hashes
       THEN /\ tpc' = [tpc EXCEPT ![t] = "done"]
            /\ tresult' = [tresult EXCEPT ![t] = "Duplicate"]
       ELSE /\ tpc' = [tpc EXCEPT ![t] = "mark"]
            /\ tresult' = tresult
    /\ UNCHANGED <<storeVars, callVars, engineVars, bmVars, hybridVars, laterVars, held, tdoc, round_base>>

\* _is_duplicate, "self.content_hashes.add(content_hash); return False"
t_mark(t) ==
    /\ tpc[t] = "mark"
    /\ content_hashes' = content_hashes \cup {compute_hash(tdoc[t].text)}
    /\ tpc' = [tpc EXCEPT ![t] = "append"]
    /\ UNCHANGED <<documents, sources_added, callVars, engineVars, bmVars, hybridVars, laterVars, held, tdoc, tresult, round_base>>

\* "self.documents.append(doc); added_count += 1"
t_append(t) ==
    /\ tpc[t] = "append"
    /\ documents' = Append(documents, tdoc[t])
    /\ tpc' = [tpc EXCEPT ![t] = "done"]
    /\ tresult' = [tresult EXCEPT ![t] = "Added"]
    /\ UNCHANGED <<content_hashes, sources_added, callVars, engineVars, bmVars, hybridVars, laterVars, held, tdoc, round_base>>

\* both calls have returned
t_join ==
    /\ \A t \in Tasks : tpc[t] = "done"
    /\ tpc' = [t \in Tasks |-> "idle"]
    /\ UNCHANGED <<storeVars, callVars, engineVars, bmVars, hybridVars, laterVars, held, tdoc, tresult, round_base>>

\* clear() called while no task is running
t_clear ==
    /\ \A t \in Tasks : tpc[t] = "idle"
    /\ clear

ConcNext ==
    \/ \E t \in Tasks : t_begin(t)
    \/ \E t \in Tasks : t_check(t)
    \/ \E t \in Tasks : t_mark(t)
    \/ \E t \in Tasks : t_append(t)
    \/ t_join
    \/ t_clear

SpecConc == Init /\ [][ConcNext]_vars

\* C3: when both tasks have inserted the same text, which was not stored when
\* they started, exactly one chunk with that text is stored and exactly one of
\* the two inserts was reported as added.
C3_ConcurrentInsertSafe ==
    ((\A t \in Tasks : tpc[t] = "done")
       /\ tdoc["t1"].text = tdoc["t2"].text
       /\ \A i \in 1..round_base : documents[i].text # tdoc["t1"].text)
    => /\ Count(tdoc["t1"].text) = 1
       /\ Cardinality({t \in Tasks : tresult[t] = "Added"}) = 1

\* ---------------------------------------------------------------------
\* AdvancedQueryEngine: load_or_create_index and query
\* ---------------------------------------------------------------------

MaxBuilds == 2      \* most index objects created in one run

MaxEngineDocs == 1  \* most documents passed to load_or_create_index

\* document texts: a blank one, and texts with and without a trailing blank
EngineTexts == {<<" ">>, <<"a">>, <<"a", " ">>, <<"a", "a">>}

\* the lists of documents a caller may pass to load_or_create_index
DocLists == UNION {[1..n -> EngineTexts] : n \in 0..MaxEngineDocs}

Modes == {"vector", "bm25", "hybrid", "other"}

\* VectorStoreIndex.from_documents: the node parser strips every chunk and
\* drops the empty ones, so a blank document contributes no node
RECURSIVE from_documents(_)
from_documents(docs) ==
    IF docs = <<>> THEN <<>>
    ELSE IF Strip(Head(docs)) = <<>> THEN from_documents(Tail(docs))
         ELSE <<Strip(Head(docs))>> \o from_documents(Tail(docs))

engineOutside == <<storeVars, callVars, taskVars, bmVars, hybridVars, laterVars, held>>

queryVars == <<qpc, q_mode, q_index, q_retriever, q_result>>

\* a new AdvancedQueryEngine on the same storage_dir (app.py builds one per
\* "Build index" click); what is persisted stays
engine_new ==
    /\ bpc = "idle" /\ qpc \in {"idle", "done"}
    /\ index' = NoObject
    /\ nodes' = NoObject
    /\ vector_retriever' = NoObject
    /\ bm25_retriever' = NoObject
    /\ hybrid_retriever' = NoHybrid
    /\ b_docs' = <<>>
    /\ b_result' = "none"
    /\ ever_built' = FALSE
    /\ qpc' = "idle"
    /\ q_mode' = "none"
    /\ q_index' = NoObject
    /\ q_retriever' = NoHybrid
    /\ q_result' = NoResult
    /\ UNCHANGED <<storage, builds, bpc, engineOutside>>

\* load_or_create_index, storage exists: the persisted index is loaded and
\* the documents argument is not looked at
build_load(docs) ==
    /\ bpc = "idle"
    /\ storage.exists
    /\ builds < MaxBuilds
    /\ builds' = builds + 1
    /\ index' = [gen |-> builds + 1, nodes |-> storage.nodes]
    /\ b_docs' = docs
    /\ b_result' = "running"
    /\ bpc' = "nodes"
    /\ UNCHANGED <<storage, nodes, vector_retriever, bm25_retriever,
                   hybrid_retriever, ever_built, queryVars, engineOutside>>

\* load_or_create_index, no storage and no documents: ValueError
build_no_documents ==
    /\ bpc = "idle"
    /\ ~storage.exists
    /\ b_docs' = <<>>
    /\ b_result' = "raised"
    /\ UNCHANGED <<storage, index, nodes, vector_retriever, bm25_retriever,
                   hybrid_retriever, builds, bpc, ever_built, queryVars,
                   engineOutside>>

\* load_or_create_index, no storage: self.index = from_documents(documents)
build_create(docs) ==
    /\ bpc = "idle"
    /\ ~storage.exists
    /\ docs # <<>>
    /\ builds < MaxBuilds
    /\ builds' = builds + 1
    /\ index' = [gen |-> builds + 1, nodes |-> from_documents(docs)]
    /\ b_docs' = docs
    /\ b_result' = "running"
    /\ bpc' = "persist"
    /\ UNCHANGED <<storage, nodes, vector_retriever, bm25_retriever,
                   hybrid_retriever, ever_built, queryVars, engineOutside>>

\* the embedding call of from_documents, or reading the storage, raises:
\* nothing has been assigned yet
build_index_raises(docs) ==
    /\ bpc = "idle"
    /\ storage.exists \/ docs # <<>>
    /\ b_docs' = docs
    /\ b_result' = "raised"
    /\ UNCHANGED <<storage, index, nodes, vector_retriever, bm25_retriever,
                   hybrid_retriever, builds, bpc, ever_built, queryVars,
                   engineOutside>>

\* self.index.storage_context.persist(...)
build_persist ==
    /\ bpc = "persist"
    /\ storage' = [exists |-> TRUE, nodes |-> index.nodes]
    /\ bpc' = "nodes"
    /\ UNCHANGED <<index, nodes, vector_retriever, bm25_retriever,
                   hybrid_retriever, builds, b_docs, b_result, ever_built,
                   queryVars, engineOutside>>

\* persist raises (the directory cannot be written): the call ends with
\* self.index already assigned
build_persist_raises ==
    /\ bpc = "persist"
    /\ bpc' = "idle"
    /\ b_result' = "raised"
    /\ UNCHANGED <<storage, index, nodes, vector_retriever, bm25_retriever,
                   hybrid_retriever, builds, b_docs, ever_built, queryVars,
                   engineOutside>>

\* self.nodes = list(self.index.docstore.docs.values())
build_nodes ==
    /\ bpc = "nodes"
    /\ nodes' = index
    /\ bpc' = "vector"
    /\ UNCHANGED <<storage, index, vector_retriever, bm25_retriever,
                   hybrid_retriever, builds, b_docs, b_result, ever_built,
                   queryVars, engineOutside>>

\* _setup_retrievers: self.vector_retriever = VectorIndexRetriever(self.index)
setup_vector ==
    /\ bpc = "vector"
    /\ vector_retriever' = index
    /\ bpc' = "bm25"
    /\ UNCHANGED <<storage, index, nodes, bm25_retriever, hybrid_retriever,
                   builds, b_docs, b_result, ever_built, queryVars,
                   engineOutside>>

\* _setup_retrievers: self.bm25_retriever = BM25Retriever(self.nodes)
setup_bm25 ==
    /\ bpc = "bm25"
    /\ nodes.nodes # <<>>
    /\ bm25_retriever' = nodes
    /\ bpc' = "hybrid"
    /\ UNCHANGED <<storage, index, nodes, vector_retriever, hybrid_retriever,
                   builds, b_docs, b_result, ever_built, queryVars,
                   engineOutside>>

\* BM25Retriever(self.nodes) on zero nodes: BM25Okapi divides by the corpus
\* size and the call ends with the vector retriever already assigned
setup_bm25_raises ==
    /\ bpc = "bm25"
    /\ nodes.nodes = <<>>
    /\ bpc' = "idle"
    /\ b_result' = "raised"
    /\ UNCHANGED <<storage, index, nodes, vector_retriever, bm25_retriever,
                   hybrid_retriever, builds, b_docs, ever_built, queryVars,
                   engineOutside>>

\* _setup_retrievers: self.hybrid_retriever = HybridRetriever(...); the
\* call returns
setup_hybrid ==
    /\ bpc = "hybrid"
    /\ hybrid_retriever' = [gen |-> index.gen, vector |-> vector_retriever,
                            bm25 |-> bm25_retriever]
    /\ bpc' = "idle"
    /\ b_result' = "ok"
    /\ ever_built' = TRUE
    /\ UNCHANGED <<storage, index, nodes, vector_retriever, bm25_retriever,
                   builds, b_docs, queryVars, engineOutside>>

buildVars == <<storage, index, nodes, vector_retriever, bm25_retriever,
               hybrid_retriever, builds, bpc, b_docs, b_result, ever_built>>

\* query, "if not self.index: raise ValueError(...)"
query_check(mode) ==
    /\ qpc \in {"idle", "done"}
    /\ q_mode' = mode
    /\ q_index' = index
    /\ q_retriever' = NoHybrid
    /\ IF index.gen = 0
       THEN /\ qpc' = "done"
            /\ q_result' = [status |-> "IndexNotLoaded", searched |-> <<>>]
       ELSE /\ qpc' = "select"
            /\ q_result' = NoResult
    /\ UNCHANGED <<buildVars, engineOutside>>

\* query, the retrievers dict, the mode check and retrievers[mode]
query_select ==
    /\ qpc = "select"
    /\ IF q_mode \notin {"vector", "bm25", "hybrid"}
       THEN /\ qpc' = "done"
            /\ q_result' = [status |-> "InvalidMode", searched |-> <<>>]
            /\ UNCHANGED q_retriever
       ELSE /\ qpc' = "retrieve"
            /\ q_retriever' =
                 CASE q_mode = "vector" ->
                        [gen |-> vector_retriever.gen,
                         vector |-> vector_retriever, bm25 |-> NoObject]
                   [] q_mode = "bm25" ->
                        [gen |-> bm25_retriever.gen,
                         vector |-> NoObject, bm25 |-> bm25_retriever]
                   [] q_mode = "hybrid" -> hybrid_retriever
            /\ UNCHANGED q_result
    /\ UNCHANGED <<q_mode, q_index, buildVars, engineOutside>>

\* the node lists a selected retriever searches
Searched(r) ==
    (IF r.vector.gen # 0 THEN <<r.vector.nodes>> ELSE <<>>)
    \o (IF r.bm25.gen # 0 THEN <<r.bm25.nodes>> ELSE <<>>)

\* query, retriever.retrieve(query_bundle) and the answer built from it;
\* None has no retrieve attribute
query_retrieve ==
    /\ qpc = "retrieve"
    /\ qpc' = "done"
    /\ q_result' = IF q_retriever.gen = 0
                   THEN [status |-> "AttributeError", searched |-> <<>>]
                   ELSE [status |-> "ok", searched |-> Searched(q_retriever)]
    /\ UNCHANGED <<q_mode, q_index, q_retriever, buildVars, engineOutside>>

NoQuery == qpc \in {"idle", "done"}

NoBuild == bpc = "idle"

\* one caller: an operation starts when the other has returned
EngineNext ==
    \/ engine_new
    \/ \E docs \in DocLists : NoQuery /\ build_load(docs)
    \/ NoQuery /\ build_no_documents
    \/ \E docs \in DocLists : NoQuery /\ build_create(docs)
    \/ \E docs \in DocLists : NoQuery /\ build_index_raises(docs)
    \/ build_persist
    \/ build_persist_raises
    \/ build_nodes
    \/ setup_vector
    \/ setup_bm25
    \/ setup_bm25_raises
    \/ setup_hybrid
    \/ \E mode \in Modes : NoBuild /\ query_check(mode)
    \/ query_select
    \/ query_retrieve

SpecEngine == Init /\ [][EngineNext]_vars

\* a query running while load_or_create_index runs on the same engine
RebuildNext ==
    \/ engine_new
    \/ \E docs \in DocLists : build_load(docs)
    \/ build_no_documents
    \/ \E docs \in DocLists : build_create(docs)
    \/ \E docs \in DocLists : build_index_raises(docs)
    \/ build_persist
    \/ build_persist_raises
    \/ build_nodes
    \/ setup_vector
    \/ setup_bm25
    \/ setup_bm25_raises
    \/ setup_hybrid
    \/ \E mode \in Modes : query_check(mode)
    \/ query_select
    \/ query_retrieve

SpecRebuild == Init /\ [][RebuildNext]_vars

\* C7: a query returns a result only on an engine whose
\* load_or_create_index has completed successfully; before that it fails
\* with an error
C7_QueryNeedsBuild ==
    (qpc = "done" /\ q_result.status = "ok") => ever_built

\* C8: after load_or_create_index(D2) has succeeded, the nodes the
\* retrievers search are the chunks of D2, whatever was built before
C8_RebuildUsesCurrent ==
    (bpc = "idle" /\ b_result = "ok" /\ b_docs # <<>>)
        => /\ vector_retriever.nodes = from_documents(b_docs)
           /\ bm25_retriever.nodes = from_documents(b_docs)
           /\ hybrid_retriever.vector = vector_retriever
           /\ hybrid_retriever.bm25 = bm25_retriever

\* C9: a query that found an index uses retrievers of that same build,
\* never a new index with retrievers that are missing or older
C9_RebuildAtomic ==
    (qpc = "done" /\ q_index.gen # 0 /\ q_mode \in {"vector", "bm25", "hybrid"})
        => /\ q_retriever.gen = q_index.gen
           /\ q_mode \in {"vector", "hybrid"} => q_retriever.vector.gen = q_index.gen
           /\ q_mode \in {"bm25", "hybrid"} => q_retriever.bm25.gen = q_index.gen

\* ---------------------------------------------------------------------
\* BM25Retriever
\* ---------------------------------------------------------------------

MaxCorpus == 3      \* most nodes handed to a BM25Retriever

MaxTopK == 3        \* largest similarity_top_k

MaxScore == 2       \* largest score get_scores reports

\* what BM25Okapi.get_scores may report for one node
ScoreValues == (0 - 1)..MaxScore

bmOutside == <<storeVars, callVars, taskVars, engineVars, hybridVars, laterVars, held>>

\* node texts, as the words between their blanks
NodeTexts == <<
    <<"Priya", "Sharma", "is", "the", "CEO", "of", "TechCorp">>,
    <<"TechCorp", "was", "founded", "in", "2020">>,
    <<"Raj", "Kumar", "is", "the", "CTO", "of", "TechCorp">>,
    <<"Raj", "Kumar">> >>

\* the node lists a BM25Retriever is built from
Corpora == {SubSeq(NodeTexts, 1, n) : n \in 1..MaxCorpus} \ {<<>>}

\* the query strings, as the words between their blanks
Queries == {<<"CEO">>, <<"TechCorp">>, <<"founded">>, <<"is">>, <<"salary">>,
            <<"CEO", "CTO">>, <<"TechCorp", "CEO">>}

\* str.lower()
Lower(w) ==
    CASE w = "Priya" -> "priya"
      [] w = "Sharma" -> "sharma"
      [] w = "CEO" -> "ceo"
      [] w = "CTO" -> "cto"
      [] w = "TechCorp" -> "techcorp"
      [] w = "Raj" -> "raj"
      [] w = "Kumar" -> "kumar"
      [] OTHER -> w

\* the default tokenizer: text.lower().split()
tokenizer(words) == [i \in 1..Len(words) |-> Lower(words[i])]

Tokens(doc) == {doc[i] : i \in 1..Len(doc)}

\* BM25Okapi: the words of the corpus
Words(corpus) == UNION {Tokens(corpus[i]) : i \in 1..Len(corpus)}

\* BM25Okapi: in how many documents a word occurs
DocFreq(corpus, w) == Cardinality({i \in 1..Len(corpus) : w \in Tokens(corpus[i])})

Sign(x) == IF x > 0 THEN 1 ELSE IF x < 0 THEN 0 - 1 ELSE 0

\* BM25Okapi._calc_idf: the sign of log(N - n + 0.5) - log(n + 0.5)
IdfSign(corpus, w) == Sign(Len(corpus) - 2 * DocFreq(corpus, w))

RECURSIVE Product(_, _, _)
Product(corpus, ws, num) ==
    IF ws = {} THEN 1
    ELSE LET w == CHOOSE x \in ws : TRUE
             n == DocFreq(corpus, w)
         IN (IF num THEN 2 * (Len(corpus) - n) + 1 ELSE 2 * n + 1)
            * Product(corpus, ws \ {w}, num)

\* BM25Okapi._calc_idf: the sign of average_idf, the mean of the idf of all
\* words; the sum of the logarithms is the logarithm of a quotient
AverageIdfSign(corpus) ==
    Sign(Product(corpus, Words(corpus), TRUE) - Product(corpus, Words(corpus), FALSE))

\* BM25Okapi._calc_idf: a negative idf is replaced by epsilon * average_idf
calc_idf(corpus) ==
    LET avg == AverageIdfSign(corpus)
    IN [w \in Words(corpus) |->
          IF IdfSign(corpus, w) < 0 THEN avg ELSE IdfSign(corpus, w)]

\* the signs of what the query tokens add to the score of document i: the
\* idf (0 for a word unknown to the corpus) times a term-frequency factor
\* that is positive when the word occurs in the document and 0 when not
TermSigns(corpus, idf, query, i) ==
    {IF query[j] \in Tokens(corpus[i]) THEN idf[query[j]] ELSE 0
        : j \in 1..Len(query)}

\* BM25Okapi.get_scores: the score arrays whose signs are those of the sums
\* of the terms; the sizes of the scores are left open
get_scores(corpus, idf, query) ==
    LET sg == [i \in 1..Len(corpus) |-> TermSigns(corpus, idf, query, i)]
    IN {scores \in [1..Len(corpus) -> ScoreValues] :
          \A i \in 1..Len(corpus) :
            /\ sg[i] \subseteq {0} => scores[i] = 0
            /\ (sg[i] \subseteq {0, 1} /\ 1 \in sg[i]) => scores[i] > 0
            /\ (sg[i] \subseteq {0, 0 - 1} /\ (0 - 1) \in sg[i]) => scores[i] < 0}

\* BM25Retriever.__init__ on a list of one or more nodes
bm25_init(nodes_, k) ==
    /\ nodes_ # <<>>
    /\ bm_status' = "ready"
    /\ bm_size' = Len(nodes_)
    /\ bm_corpus' = [i \in 1..Len(nodes_) |-> tokenizer(nodes_[i])]
    /\ bm_idf' = calc_idf([i \in 1..Len(nodes_) |-> tokenizer(nodes_[i])])
    /\ bm_query' = <<>>
    /\ bm_top_k' = k
    /\ bm_scores' = <<>>
    /\ bm_results' = <<>>
    /\ UNCHANGED bmOutside

\* BM25Retriever.__init__ on zero nodes: BM25Okapi(self._corpus) divides
\* by the corpus size
bm25_init_raises ==
    /\ bm_status' = "raised"
    /\ bm_size' = 0
    /\ bm_corpus' = <<>>
    /\ bm_idf' = <<>>
    /\ bm_query' = <<>>
    /\ bm_top_k' = 0
    /\ bm_scores' = <<>>
    /\ bm_results' = <<>>
    /\ UNCHANGED bmOutside

Perms(n) == {p \in [1..n -> 1..n] : \A i, j \in 1..n : p[i] = p[j] => i = j}

\* np.argsort(scores): the index orders that put the scores in ascending
\* order; the default sort kind does not fix the order of equal scores
argsort(scores) ==
    {p \in Perms(Len(scores)) :
        \A i, j \in 1..Len(scores) : i < j => scores[p[i]] <= scores[p[j]]}

\* [::-1]
Reversed(seq) == [i \in 1..Len(seq) |-> seq[Len(seq) + 1 - i]]

\* [:k]
Take(seq, k) == IF Len(seq) <= k THEN seq ELSE SubSeq(seq, 1, k)

\* the loop of _retrieve: keep the picked indices whose score is > 0
RECURSIVE positive_results(_, _)
positive_results(top_indices, scores) ==
    IF top_indices = <<>> THEN <<>>
    ELSE (IF scores[Head(top_indices)] > 0
          THEN <<[idx |-> Head(top_indices), score |-> scores[Head(top_indices)]]>>
          ELSE <<>>)
         \o positive_results(Tail(top_indices), scores)

\* BM25Retriever._retrieve
bm25_retrieve(query, scores, order) ==
    /\ bm_status = "ready"
    /\ scores \in get_scores(bm_corpus, bm_idf, tokenizer(query))
    /\ order \in argsort(scores)
    /\ bm_query' = tokenizer(query)
    /\ bm_scores' = scores
    /\ bm_results' = positive_results(Take(Reversed(order), bm_top_k), scores)
    /\ UNCHANGED <<bm_status, bm_size, bm_corpus, bm_idf, bm_top_k, bmOutside>>

BM25Next ==
    \/ \E nodes_ \in Corpora, k \in 1..MaxTopK : bm25_init(nodes_, k)
    \/ bm25_init_raises
    \/ \E query \in Queries :
         \E scores \in get_scores(bm_corpus, bm_idf, tokenizer(query)) :
           \E order \in argsort(scores) : bm25_retrieve(query, scores, order)

SpecBM25 == Init /\ [][BM25Next]_vars

Positive(scores) == {i \in 1..Len(scores) : scores[i] > 0}

\* C10: _retrieve returns at most k candidates, all with a positive score,
\* in descending score order, all positive-scoring nodes when there are at
\* most k of them, and equal scores in corpus order (lower index first)
C10_TopKInCorpusOrder ==
    bm_scores # <<>> =>
        /\ Len(bm_results) <= bm_top_k
        /\ \A i \in 1..Len(bm_results) :
             /\ bm_results[i].score > 0
             /\ bm_results[i].score = bm_scores[bm_results[i].idx]
        /\ \A i, j \in 1..Len(bm_results) :
             i < j => bm_results[i].score >= bm_results[j].score
        /\ Cardinality(Positive(bm_scores)) <= bm_top_k
             => {bm_results[i].idx : i \in 1..Len(bm_results)} = Positive(bm_scores)
        /\ \A i, j \in 1..Len(bm_results) :
             (i < j /\ bm_results[i].score = bm_results[j].score)
                 => bm_results[i].idx < bm_results[j].idx

\* C11: on the corpus of exactly 'Priya Sharma is the CEO of TechCorp' and
\* 'TechCorp was founded in 2020', the query 'CEO' returns the first chunk
\* with a positive score and not the second, whose score is 0
C11_KeywordExactness ==
    (/\ bm_status = "ready"
     /\ bm_corpus = <<tokenizer(NodeTexts[1]), tokenizer(NodeTexts[2])>>
     /\ bm_query = tokenizer(<<"CEO">>))
        => /\ \E i \in 1..Len(bm_results) :
                bm_results[i].idx = 1 /\ bm_results[i].score > 0
           /\ \A i \in 1..Len(bm_results) : bm_results[i].idx # 2
           /\ bm_scores[2] = 0

\* C12: constructing the keyword index from zero chunks succeeds (and a
\* query on it then returns an empty list)
C12_EmptyCorpusBuilds ==
    /\ bm_status # "raised"
    /\ (bm_status = "ready" /\ bm_size = 0 /\ bm_query # <<>>) => bm_results = <<>>

\* ---------------------------------------------------------------------
\* HybridRetriever
\* ---------------------------------------------------------------------

\* the default of the parameter k of _reciprocal_rank_fusion
RRF_K == 60

MaxListLen == 3     \* longest result list a retriever hands to the fusion

\* weights are counted in halves: the weight 0.5 is 1, the weight 1.0 is 2
WeightUnit == 2

\* the weights lists a caller passes to HybridRetriever
WeightLists == {<<1, 1>>, <<2, 2>>, <<2, 1>>, <<1, 2>>, <<62, 61>>, <<0, 0>>,
                <<0, 1>>, <<1, 0 - 1>>, <<1>>, <<1, 1, 1>>}

IdOrder == <<"X", "Y", "Z", "W">>

NodeIds == {IdOrder[i] : i \in 1..Len(IdOrder)}

\* a result list of one retriever: node ids, no id twice
ResultLists ==
    UNION {{l \in [1..n -> NodeIds] : \A i, j \in 1..n : l[i] = l[j] => i = j}
             : n \in 0..MaxListLen}

\* the result lists of the first retriever, its nodes named in rank order
FirstLists ==
    {SubSeq(IdOrder, 1, n) : n \in 0..(IF MaxListLen < Len(IdOrder) THEN MaxListLen ELSE Len(IdOrder))}

\* what retriever._retrieve returns for each of n retrievers
ListInputs(n) ==
    IF n = 1 THEN {<<a>> : a \in FirstLists}
    ELSE {<<a, b>> : <<a, b>> \in FirstLists \X ResultLists}

\* scores are counted in units of 1 / (WeightUnit * RankScale), which makes
\* weight * (1.0 / (k + rank)) a whole number for every rank up to MaxListLen
RECURSIVE RankProduct(_)
RankProduct(r) == IF r = 0 THEN 1 ELSE (RRF_K + r) * RankProduct(r - 1)

RankScale == RankProduct(MaxListLen)

\* a mutation of rrf_score: ranks counted from 0
rrf_score_from_zero(weight, rank) == weight * (RankScale \div (RRF_K + rank - 1))

\* rrf_score = weight * (1.0 / (k + rank))
rrf_score(weight, rank) == weight * (RankScale \div (RRF_K + rank))

Position(node_scores, id) ==
    IF \E i \in 1..Len(node_scores) : node_scores[i].id = id
    THEN CHOOSE i \in 1..Len(node_scores) : node_scores[i].id = id
    ELSE 0

\* a mutation of AddScore: the score of a known key is overwritten
AddScore_overwrite(node_scores, id, v) ==
    LET at == Position(node_scores, id)
    IN IF at = 0
       THEN Append(node_scores, [id |-> id, score |-> v])
       ELSE [node_scores EXCEPT ![at].score = v]

\* node_scores[node_id] += rrf_score on a defaultdict(float): a new key is
\* inserted at the end, a known key keeps its place
AddScore(node_scores, id, v) ==
    LET at == Position(node_scores, id)
    IN IF at = 0
       THEN Append(node_scores, [id |-> id, score |-> v])
       ELSE [node_scores EXCEPT ![at].score = @ + v]

\* the inner loop: for rank, node_with_score in enumerate(results, start=1)
RECURSIVE AddResults(_, _, _, _)
AddResults(node_scores, weight, results, rank) ==
    IF rank > Len(results) THEN node_scores
    ELSE AddResults(AddScore(node_scores, results[rank], rrf_score(weight, rank)),
                    weight, results, rank + 1)

\* the outer loop: for weight, results in zip(self._weights, results_list)
RECURSIVE AddLists(_, _, _, _)
AddLists(node_scores, weights, results_list, i) ==
    IF i > Len(weights) \/ i > Len(results_list) THEN node_scores
    ELSE AddLists(AddResults(node_scores, weights[i], results_list[i], 1),
                  weights, results_list, i + 1)

\* a mutation of InsertDescending: x goes in front of equal scores
InsertDescending_before_equal(sorted_, x) ==
    LET before == {j \in 1..Len(sorted_) : sorted_[j].score <= x.score}
        at == IF before = {} THEN Len(sorted_) + 1
              ELSE CHOOSE j \in before : \A m \in before : j <= m
    IN SubSeq(sorted_, 1, at - 1) \o <<x>> \o SubSeq(sorted_, at, Len(sorted_))

\* where x goes in a list sorted by score descending so that it stays
\* behind every entry whose score is not smaller
InsertDescending(sorted_, x) ==
    LET before == {j \in 1..Len(sorted_) : sorted_[j].score < x.score}
        at == IF before = {} THEN Len(sorted_) + 1
              ELSE CHOOSE j \in before : \A m \in before : j <= m
    IN SubSeq(sorted_, 1, at - 1) \o <<x>> \o SubSeq(sorted_, at, Len(sorted_))

\* sorted(node_scores.items(), key=lambda x: x[1], reverse=True): the sort
\* is stable, equal scores keep their insertion order
RECURSIVE SortedDescending(_)
SortedDescending(items) ==
    IF items = <<>> THEN <<>>
    ELSE InsertDescending(SortedDescending(SubSeq(items, 1, Len(items) - 1)),
                          items[Len(items)])

\* _reciprocal_rank_fusion, the score map after the two loops
accumulate(weights, results_list) == AddLists(<<>>, weights, results_list, 1)

\* a mutation of reciprocal_rank_fusion: the sorted list is not cut
reciprocal_rank_fusion_untruncated(weights, results_list, top_k) ==
    SortedDescending(accumulate(weights, results_list))

\* HybridRetriever._reciprocal_rank_fusion
reciprocal_rank_fusion(weights, results_list, top_k) ==
    Take(SortedDescending(accumulate(weights, results_list)), top_k)

\* how many retrievers a HybridRetriever is given
RetrieverCounts == {1, 2}

hybridOutside == <<storeVars, callVars, taskVars, engineVars, bmVars, laterVars, held>>

\* HybridRetriever.__init__ with as many weights as retrievers
hybrid_init(n, weights, k) ==
    /\ Len(weights) = n
    /\ h_status' = "ready"
    /\ h_retrievers' = n
    /\ h_weights' = weights
    /\ h_top_k' = k
    /\ h_lists' = <<>>
    /\ h_node_scores' = <<>>
    /\ h_fused' = <<>>
    /\ UNCHANGED hybridOutside

\* HybridRetriever.__init__ with weights=None: [1.0 / len(retrievers)] * len
hybrid_init_default(n, k) ==
    /\ h_status' = "ready"
    /\ h_retrievers' = n
    /\ h_weights' = [i \in 1..n |-> WeightUnit \div n]
    /\ h_top_k' = k
    /\ h_lists' = <<>>
    /\ h_node_scores' = <<>>
    /\ h_fused' = <<>>
    /\ UNCHANGED hybridOutside

\* a mutation of hybrid_init_raises that lets the constructor return
hybrid_init_accepts_mismatch(n, weights) ==
    /\ Len(weights) # n
    /\ h_status' = "ready"
    /\ h_retrievers' = n
    /\ h_weights' = weights
    /\ h_top_k' = 1
    /\ h_lists' = <<>>
    /\ h_node_scores' = <<>>
    /\ h_fused' = <<>>
    /\ UNCHANGED hybridOutside

\* HybridRetriever.__init__, len(weights) != len(retrievers): ValueError,
\* no retriever object comes into being; the rejected arguments are kept
\* for the record
hybrid_init_raises(n, weights) ==
    /\ Len(weights) # n
    /\ h_status' = "raised"
    /\ h_retrievers' = n
    /\ h_weights' = weights
    /\ h_top_k' = 0
    /\ h_lists' = <<>>
    /\ h_node_scores' = <<>>
    /\ h_fused' = <<>>
    /\ UNCHANGED hybridOutside

\* HybridRetriever._retrieve: every retriever is asked, the lists are fused.
\* A call reads only the weights and the limit and keeps nothing for the
\* next call, so one call per retriever object is followed.
hybrid_retrieve(results_list) ==
    /\ h_status = "ready"
    /\ h_lists = <<>>
    /\ Len(results_list) = h_retrievers
    /\ h_lists' = results_list
    /\ h_node_scores' = accumulate(h_weights, results_list)
    /\ h_fused' = reciprocal_rank_fusion(h_weights, results_list, h_top_k)
    /\ UNCHANGED <<h_status, h_retrievers, h_weights, h_top_k, hybridOutside>>

HybridNext ==
    \/ \E n \in RetrieverCounts, weights \in WeightLists, k \in 1..MaxTopK :
         hybrid_init(n, weights, k)
    \/ \E n \in RetrieverCounts, k \in 1..MaxTopK : hybrid_init_default(n, k)
    \/ \E n \in RetrieverCounts, weights \in WeightLists : hybrid_init_raises(n, weights)
    \/ \E results_list \in ListInputs(h_retrievers) : hybrid_retrieve(results_list)

SpecHybrid == Init /\ [][HybridNext]_vars

\* the 1-based position of id in a result list, 0 when it is absent
RankIn(results, id) ==
    IF \E r \in 1..Len(results) : results[r] = id
    THEN CHOOSE r \in 1..Len(results) : results[r] = id
    ELSE 0

\* the node ids of the result lists
ListIds(results_list) ==
    {results_list[i][r] : <<i, r>> \in
        {ir \in (1..Len(results_list)) \X (1..MaxListLen) : ir[2] <= Len(results_list[ir[1]])}}

ScoreOf(node_scores, id) == node_scores[Position(node_scores, id)].score

\* weight_i / (k + rank_i) summed over the lists i..n that hold id
RECURSIVE SumOverLists(_, _, _, _)
SumOverLists(weights, results_list, id, i) ==
    IF i > Len(results_list) THEN 0
    ELSE (IF RankIn(results_list[i], id) = 0 THEN 0
          ELSE (weights[i] * RankScale) \div (RRF_K + RankIn(results_list[i], id)))
         + SumOverLists(weights, results_list, id, i + 1)

Fused == h_status = "ready" /\ h_lists # <<>>

\* C13: the fused score of every chunk of the input lists is the sum, over
\* exactly the lists that hold it, of weight_i / (k + rank_i) with rank_i
\* its 1-based position
C13_FusedScore ==
    Fused =>
        /\ \A id \in ListIds(h_lists) :
             /\ Position(h_node_scores, id) # 0
             /\ ScoreOf(h_node_scores, id) = SumOverLists(h_weights, h_lists, id, 1)
        /\ \A i \in 1..Len(h_fused) :
             h_fused[i].score = SumOverLists(h_weights, h_lists, h_fused[i].id, 1)

\* a chunk at rank 2 of the first list and rank 1 of the second was fused
\* together with a chunk that only the first list holds
C13_Witness ==
    /\ Fused
    /\ h_weights = <<2, 1>>
    /\ h_lists = <<(<<"X", "Y">>), (<<"Y">>)>>
    /\ ScoreOf(h_node_scores, "Y") = 2 * (RankScale \div (RRF_K + 2)) + RankScale \div (RRF_K + 1)

Min2(a, b) == IF a < b THEN a ELSE b

\* C14: every chunk of the input lists has an entry in the score map; the
\* fused list holds no id twice and no id outside the input lists, and its
\* length is min(result limit, number of distinct chunks)
C14_FusionConservation ==
    Fused =>
        /\ {h_node_scores[i].id : i \in 1..Len(h_node_scores)} = ListIds(h_lists)
        /\ \A i, j \in 1..Len(h_fused) : h_fused[i].id = h_fused[j].id => i = j
        /\ \A i \in 1..Len(h_fused) : h_fused[i].id \in ListIds(h_lists)
        /\ Len(h_fused) = Min2(h_top_k, Cardinality(ListIds(h_lists)))

\* four distinct chunks, one of them in both lists, were cut to a limit of 2
C14_Witness ==
    /\ Fused
    /\ h_top_k = 2
    /\ Cardinality(ListIds(h_lists)) = 4
    /\ \E id \in NodeIds : RankIn(h_lists[1], id) # 0 /\ RankIn(h_lists[2], id) # 0
    /\ Len(h_fused) = 2

\* the ids that are at rank 1 in exactly one of two lists
FirstInOne(results_list) ==
    {id \in NodeIds :
        Cardinality({i \in 1..Len(results_list) : RankIn(results_list[i], id) = 1}) = 1}

FirstInBoth ==
    /\ Fused
    /\ h_retrievers = 2
    /\ h_weights[1] = h_weights[2]
    /\ h_lists[1] # <<>> /\ h_lists[2] # <<>>
    /\ h_lists[1][1] = h_lists[2][1]

\* the score of X exceeds what any chunk at rank 1 of only one list gets
\* from the same weights, whatever the two lists are
BeatsFirstInOne ==
    \A other \in ListInputs(2) :
        \A id \in FirstInOne(other) :
            ScoreOf(accumulate(h_weights, other), id) < ScoreOf(h_node_scores, h_lists[1][1])

\* C15 as stated: with two lists and equal weights, a chunk X at rank 1 in
\* both lists has a fused score strictly greater than any chunk at rank 1
\* in only one list, and X is first in the fused output
C15_Monotone ==
    FirstInBoth => (BeatsFirstInOne /\ h_fused[1].id = h_lists[1][1])

\* C15, amended: the same for equal weights that are positive
C15_MonotonePositive ==
    (FirstInBoth /\ h_weights[1] > 0) => (BeatsFirstInOne /\ h_fused[1].id = h_lists[1][1])

\* X led both lists under the weights [0.5, 0.5] and other chunks followed
C15_Witness ==
    /\ FirstInBoth
    /\ h_weights = <<1, 1>>
    /\ h_lists = <<(<<"X", "Y", "Z">>), (<<"X", "W">>)>>
    /\ h_fused[1].id = "X"

IdsOf(items) == [i \in 1..Len(items) |-> items[i].id]

\* C16: with A = [X, Y, Z], B = [Y, X, W], equal weights and k = 60, X and
\* Y come ahead of Z and W, X and Y have equal fused scores, and X comes
\* before Y
C16_OrderingScenario ==
    (/\ Fused
     /\ h_retrievers = 2
     /\ h_weights[1] = h_weights[2]
     /\ h_lists = <<(<<"X", "Y", "Z">>), (<<"Y", "X", "W">>)>>)
        => /\ RRF_K = 60
           /\ ScoreOf(h_node_scores, "X") = ScoreOf(h_node_scores, "Y")
           /\ h_weights[1] > 0 =>
                 \A id \in {"Z", "W"} :
                    ScoreOf(h_node_scores, id) < ScoreOf(h_node_scores, "X")
           /\ Take(<<"X", "Y">>, h_top_k) = Take(IdsOf(h_fused), 2)
           /\ \A i, j \in 1..Len(h_fused) :
                 (h_fused[i].id \in {"X", "Y"} /\ h_fused[j].id \in {"Z", "W"}) => i < j

\* the scenario was fused with the weights [0.5, 0.5] and a limit of 3
C16_Witness ==
    /\ Fused
    /\ h_weights = <<1, 1>>
    /\ h_top_k = 3
    /\ h_lists = <<(<<"X", "Y", "Z">>), (<<"Y", "X", "W">>)>>
    /\ IdsOf(h_fused) = <<"X", "Y", "Z">>

\* the smallest rank of id over the lists that hold it
MinRank(results_list, id) ==
    CHOOSE r \in 1..MaxListLen :
        /\ \E i \in 1..Len(results_list) : RankIn(results_list[i], id) = r
        /\ \A i \in 1..Len(results_list) :
             RankIn(results_list[i], id) # 0 => r <= RankIn(results_list[i], id)

\* C17: the fused output is sorted by fused score descending, and chunks
\* with equal fused score are ordered by their smallest observed rank
\* (smaller first) and then by insertion order; checked here for weights
\* that are all positive
C17_TieBreakByRank ==
    (Fused /\ \A w \in 1..Len(h_weights) : h_weights[w] > 0) =>
        \A i, j \in 1..Len(h_fused) :
            i < j =>
                /\ h_fused[i].score >= h_fused[j].score
                /\ h_fused[i].score = h_fused[j].score =>
                     /\ MinRank(h_lists, h_fused[i].id) <= MinRank(h_lists, h_fused[j].id)
                     /\ MinRank(h_lists, h_fused[i].id) = MinRank(h_lists, h_fused[j].id) =>
                          Position(h_node_scores, h_fused[i].id) < Position(h_node_scores, h_fused[j].id)

\* C18: the combiner normalizes the weights: the weights [1, 1] give the
\* fused scores and the fused order of the weights [0.5, 0.5]
C18_WeightsNormalized ==
    (Fused /\ h_weights = <<1, 1>>) =>
        /\ accumulate(<<2, 2>>, h_lists) = h_node_scores
        /\ reciprocal_rank_fusion(<<2, 2>>, h_lists, h_top_k) = h_fused

\* C19: a HybridRetriever given a number of weights different from the
\* number of retrievers is rejected at construction, and no retriever that
\* could be queried comes of it
C19_WeightCountChecked ==
    /\ (h_status # "none" /\ Len(h_weights) # h_retrievers) =>
          (h_status = "raised" /\ h_lists = <<>> /\ h_fused = <<>>)
    /\ h_status = "raised" => (h_lists = <<>> /\ h_node_scores = <<>> /\ h_fused = <<>>)

\* three weights were given for two retrievers
C19_Witness ==
    /\ h_status = "raised"
    /\ h_retrievers = 2
    /\ h_weights = <<1, 1, 1>>

\* C20: a negative weight is rejected; no HybridRetriever holds one and no
\* fused result is computed with one
C20_NegativeWeightRejected ==
    h_status = "ready" => \A w \in 1..Len(h_weights) : h_weights[w] >= 0

\* ---------------------------------------------------------------------
\* AdvancedQueryEngine.query, one whole call on a built engine
\* ---------------------------------------------------------------------

\* the default of _setup_retrievers, the only value it is called with
SetupTopK == 5

MaxLimit == 2       \* largest similarity_top_k a caller passes to query

pipeOutside == <<storeVars, callVars, taskVars, engineVars, bmVars, hybridVars,
                 rerankVars, appVars, held>>

\* the nodes of a built engine, named in the order the vector retriever
\* ranks them
PipeCorpora == FirstLists \ {<<>>}

\* index.as_retriever(similarity_top_k).retrieve: the k most similar nodes
VectorResults == {Take(p_nodes, p_top_k)}

\* BM25Retriever._retrieve: at most k nodes of the corpus, those with a
\* positive score, in any order
KeywordResults ==
    {l \in ResultLists :
        /\ Len(l) <= p_top_k
        /\ \A i \in 1..Len(l) : \E j \in 1..Len(p_nodes) : p_nodes[j] = l[i]}

RetrieverResults(mode) == IF mode = "vector" THEN VectorResults ELSE KeywordResults

\* weights=[0.5, 0.5] of _setup_retrievers, in units of WeightUnit
SetupWeights == <<1, 1>>

PipeResult(status, sources, stages) ==
    [status |-> status, sources |-> sources, stages |-> stages,
     warnings |-> <<>>]

\* load_or_create_index has returned: the three retrievers exist, each with
\* similarity_top_k = 5
setup_retrievers(corpus) ==
    /\ p_nodes' = corpus
    /\ p_top_k' = SetupTopK
    /\ p_mode' = "none"
    /\ p_limit' = 0
    /\ p_failed' = "none"
    /\ p_lists' = <<>>
    /\ p_result' = PipeResult("none", <<>>, <<>>)
    /\ UNCHANGED pipeOutside

\* query before any build: ValueError("Index not loaded...")
query_no_index(mode, limit) ==
    /\ p_nodes = <<>>
    /\ p_mode' = mode
    /\ p_limit' = limit
    /\ p_failed' = "none"
    /\ p_lists' = <<>>
    /\ p_result' = PipeResult("IndexNotLoaded", <<>>, <<>>)
    /\ UNCHANGED <<p_nodes, p_top_k, pipeOutside>>

\* query with a mode outside the retrievers dict: ValueError
query_invalid_mode(limit) ==
    /\ p_nodes # <<>>
    /\ p_mode' = "other"
    /\ p_limit' = limit
    /\ p_failed' = "none"
    /\ p_lists' = <<>>
    /\ p_result' = PipeResult("InvalidMode", <<>>, <<>>)
    /\ UNCHANGED <<p_nodes, p_top_k, pipeOutside>>

\* query(mode="vector") and query(mode="bm25"): the list of the selected
\* retriever goes to the prompt and to the sources as it is; the
\* similarity_top_k argument is not read
query_single(mode, limit, results) ==
    /\ p_nodes # <<>>
    /\ mode \in {"vector", "bm25"}
    /\ results \in RetrieverResults(mode)
    /\ p_mode' = mode
    /\ p_limit' = limit
    /\ p_failed' = "none"
    /\ p_lists' = <<results>>
    /\ p_result' = PipeResult("ok", results, <<mode, "llm">>)
    /\ UNCHANGED <<p_nodes, p_top_k, pipeOutside>>

\* query(mode="hybrid"): HybridRetriever._retrieve asks the vector
\* retriever, then the BM25 retriever, and fuses the two lists
query_hybrid(limit, semantic, keyword) ==
    /\ p_nodes # <<>>
    /\ semantic \in VectorResults
    /\ keyword \in KeywordResults
    /\ p_mode' = "hybrid"
    /\ p_limit' = limit
    /\ p_failed' = "none"
    /\ p_lists' = <<semantic, keyword>>
    /\ p_result' =
         PipeResult("ok",
                    IdsOf(reciprocal_rank_fusion(SetupWeights,
                                                 <<semantic, keyword>>, p_top_k)),
                    <<"vector", "bm25", "fusion", "llm">>)
    /\ UNCHANGED <<p_nodes, p_top_k, pipeOutside>>

\* the selected retriever raises: nothing catches the exception in
\* retrieve or in query, the call ends with it
query_single_raises(mode, limit) ==
    /\ p_nodes # <<>>
    /\ mode \in {"vector", "bm25"}
    /\ p_mode' = mode
    /\ p_limit' = limit
    /\ p_failed' = mode
    /\ p_lists' = <<>>
    /\ p_result' = PipeResult("raised", <<>>, <<mode>>)
    /\ UNCHANGED <<p_nodes, p_top_k, pipeOutside>>

\* query(mode="hybrid"), the vector retriever raises inside the loop of
\* HybridRetriever._retrieve: the loop has no handler, the BM25 retriever
\* is not asked and the exception leaves query
query_hybrid_semantic_raises(limit) ==
    /\ p_nodes # <<>>
    /\ p_mode' = "hybrid"
    /\ p_limit' = limit
    /\ p_failed' = "vector"
    /\ p_lists' = <<>>
    /\ p_result' = PipeResult("raised", <<>>, <<"vector">>)
    /\ UNCHANGED <<p_nodes, p_top_k, pipeOutside>>

\* query(mode="hybrid"), the BM25 retriever raises after the vector
\* retriever has answered
query_hybrid_keyword_raises(limit, semantic) ==
    /\ p_nodes # <<>>
    /\ semantic \in VectorResults
    /\ p_mode' = "hybrid"
    /\ p_limit' = limit
    /\ p_failed' = "bm25"
    /\ p_lists' = <<semantic>>
    /\ p_result' = PipeResult("raised", <<>>, <<"vector", "bm25">>)
    /\ UNCHANGED <<p_nodes, p_top_k, pipeOutside>>

Limits == 1..MaxLimit

QueryNext ==
    \/ \E corpus \in PipeCorpora : setup_retrievers(corpus)
    \/ \E mode \in Modes, limit \in Limits : query_no_index(mode, limit)
    \/ \E limit \in Limits : query_invalid_mode(limit)
    \/ \E mode \in {"vector", "bm25"}, limit \in Limits, results \in ResultLists :
         query_single(mode, limit, results)
    \/ \E limit \in Limits, semantic \in FirstLists, keyword \in ResultLists :
         query_hybrid(limit, semantic, keyword)
    \/ \E mode \in {"vector", "bm25"}, limit \in Limits : query_single_raises(mode, limit)
    \/ \E limit \in Limits : query_hybrid_semantic_raises(limit)
    \/ \E limit \in Limits, semantic \in FirstLists :
         query_hybrid_keyword_raises(limit, semantic)

SpecQuery == Init /\ [][QueryNext]_vars

\* C21: when the semantic retriever fails during a hybrid query, the query
\* does not fail: it asks the keyword retriever, fuses its results alone,
\* records a warning and returns that result
C21_SemanticFailureFallsBack ==
    (p_mode = "hybrid" /\ p_failed = "vector")
        => /\ p_result.status = "ok"
           /\ p_result.warnings # <<>>
           /\ \E i \in 1..Len(p_result.stages) : p_result.stages[i] = "bm25"

\* C23: the number of candidates a query returns never exceeds the limit
\* the caller passed to that call, in every mode
C23_ResultWithinLimit ==
    p_result.status = "ok" => Len(p_result.sources) <= p_limit

\* C22: every query goes through the reranker before it returns: the list
\* of the single retriever (keyword and semantic modes) or the fused list
\* (hybrid mode) is reranked, and what is returned is the reranker's list
C22_EveryQueryReranked ==
    p_result.status = "ok"
        => \E i \in 1..Len(p_result.stages) :
              /\ p_result.stages[i] = "rerank"
              /\ \E j \in 1..(i - 1) : p_result.stages[j] = p_mode \/ p_result.stages[j] = "fusion"

\* ---------------------------------------------------------------------
\* SimpleReranker
\* ---------------------------------------------------------------------

MaxRerankNodes == 2 \* most candidates handed to one rerank call

\* input scores are counted in quarters: 2 is the default 0.5, 4 is 1.0
ScoreUnit == 4

rerankOutside == <<storeVars, callVars, taskVars, engineVars, bmVars, hybridVars,
                   pipeVars, appVars, held>>

\* the weights a caller passes: the defaults 0.5 / 0.2 / 0.3 (in tenths),
\* other positive triples, and three zeros
WeightTriples == {<<5, 2, 3>>, <<1, 1, 1>>, <<1, 2, 3>>, <<0, 0, 0>>}

Ideals == {1, 3}

\* candidates: text and input score (<<>> is None, <<v>> is v quarters);
\* four share one text, one has a keyword score above 1.0
RerankPool == <<
    [id |-> 1, text |-> <<"a">>, score |-> <<>>],
    [id |-> 2, text |-> <<"a">>, score |-> <<0>>],
    [id |-> 3, text |-> <<"a">>, score |-> <<1>>],
    [id |-> 4, text |-> <<"a">>, score |-> <<2>>],
    [id |-> 5, text |-> <<"A", " ", "b">>, score |-> <<8>>],
    [id |-> 6, text |-> <<>>, score |-> <<4>>],
    [id |-> 7, text |-> <<"b", "b">>, score |-> <<3>>],
    [id |-> 8, text |-> <<"a", " ", "b", " ", "a", "b">>, score |-> <<4>>] >>

\* the candidate lists of a call: nodes of the pool, none twice
CandidateLists ==
    UNION {{[i \in 1..n |-> RerankPool[l[i]]] :
              l \in {m \in [1..n -> 1..Len(RerankPool)] :
                        \A i, j \in 1..n : m[i] = m[j] => i = j}}
             : n \in 0..MaxRerankNodes}

RerankQueries == {<<>>, <<"A">>, <<"a", " ", "b">>}

\* a mutation of normalize_weights: the keyword weight is left out of total
normalize_weights_without_keyword(sw, lw, kw) ==
    [score |-> sw, length |-> lw, keyword |-> kw, total |-> sw + lw]

\* __init__, "total = ..." and the three "/= total": every effective
\* weight is its numerator over total
normalize_weights(sw, lw, kw) ==
    [score |-> sw, length |-> lw, keyword |-> kw, total |-> sw + lw + kw]

\* SimpleReranker(score_weight, length_weight, keyword_weight, ideal_length)
reranker_init(sw, lw, kw, ideal) ==
    /\ rr_status = "none"
    /\ sw + lw + kw # 0
    /\ rr_status' = "ready"
    /\ rr_args' = <<sw, lw, kw>>
    /\ rr_weights' = normalize_weights(sw, lw, kw)
    /\ rr_ideal' = ideal
    /\ UNCHANGED <<rr_query, rr_nodes, rr_top_k, rr_signals, rr_result, rerankOutside>>

\* the weights add up to zero: "/= total" raises ZeroDivisionError
reranker_init_raises(sw, lw, kw, ideal) ==
    /\ rr_status = "none"
    /\ sw + lw + kw = 0
    /\ rr_status' = "raised"
    /\ rr_args' = <<sw, lw, kw>>
    /\ UNCHANGED <<rr_weights, rr_ideal, rr_query, rr_nodes, rr_top_k, rr_signals,
                   rr_result, rerankOutside>>

\* "node.score if hasattr(node, 'score') and node.score else 0.5", in
\* quarters: None and 0 are both falsy
original_score(node) ==
    IF node.score = <<>> THEN ScoreUnit \div 2
    ELSE IF node.score[1] = 0 THEN ScoreUnit \div 2
    ELSE node.score[1]

Abs(x) == IF x < 0 THEN 0 - x ELSE x

\* a mutation of score_length: no max(0.0, ...)
score_length_unclamped(text, ideal) == ideal - Abs(Len(text) - ideal)

\* _score_length, as a numerator over ideal_length:
\* max(0.0, 1.0 - diff / ideal) = max(0, ideal - diff) / ideal
score_length(text, ideal) ==
    IF ideal - Abs(Len(text) - ideal) < 0 THEN 0
    ELSE ideal - Abs(Len(text) - ideal)

LowerChar(c) ==
    CASE c = "A" -> "a"
      [] c = "B" -> "b"
      [] OTHER -> c

\* set(text.lower().split())
WordSet(text) == Tokens(Split([i \in 1..Len(text) |-> LowerChar(text[i])]))

\* _score_keyword_overlap as a fraction: overlap / len(query_words), and
\* 0.0 when the query has no word
score_keyword_overlap(query, text) ==
    IF WordSet(query) = {} THEN [num |-> 0, den |-> 1]
    ELSE [num |-> Cardinality(WordSet(query) \cap WordSet(text)),
          den |-> Cardinality(WordSet(query))]

\* the denominator all combined scores of one call share
ScoreDen(weights, ideal, query) ==
    weights.total * ScoreUnit * ideal * score_keyword_overlap(query, <<>>).den

\* combined_score, as a numerator over ScoreDen
combined_score(weights, ideal, query, node) ==
    LET k == score_keyword_overlap(query, node.text)
    IN weights.score * original_score(node) * ideal * k.den
       + weights.length * score_length(node.text, ideal) * ScoreUnit * k.den
       + weights.keyword * k.num * ScoreUnit * ideal

\* the three signals of the loop body, per input node
RECURSIVE signals(_, _, _, _)
signals(weights, ideal, query, nodes_) ==
    IF nodes_ = <<>> THEN <<>>
    ELSE Append(signals(weights, ideal, query, SubSeq(nodes_, 1, Len(nodes_) - 1)),
                [original |-> original_score(nodes_[Len(nodes_)]),
                 length |-> score_length(nodes_[Len(nodes_)].text, ideal),
                 keyword |-> score_keyword_overlap(query, nodes_[Len(nodes_)].text),
                 combined |-> combined_score(weights, ideal, query, nodes_[Len(nodes_)])])

\* the list "reranked" after the loop: new NodeWithScore objects on the
\* same nodes, appended in input order
RECURSIVE reranked_nodes(_, _, _, _)
reranked_nodes(weights, ideal, query, nodes_) ==
    IF nodes_ = <<>> THEN <<>>
    ELSE Append(reranked_nodes(weights, ideal, query, SubSeq(nodes_, 1, Len(nodes_) - 1)),
                [id |-> nodes_[Len(nodes_)].id, text |-> nodes_[Len(nodes_)].text,
                 score |-> combined_score(weights, ideal, query, nodes_[Len(nodes_)])])

\* a mutation of sort_reverse: a node goes in front of equal scores
RECURSIVE sort_reverse_before_equal(_)
sort_reverse_before_equal(reranked) ==
    IF reranked = <<>> THEN <<>>
    ELSE InsertDescending_before_equal(
             sort_reverse_before_equal(SubSeq(reranked, 1, Len(reranked) - 1)),
             reranked[Len(reranked)])

\* reranked.sort(key=lambda x: x.score, reverse=True): list.sort is stable
\* and reverse keeps the original order of equal elements
sort_reverse(reranked) == SortedDescending(reranked)

\* SimpleReranker.rerank
rerank_nodes(weights, ideal, query, nodes_, top_k) ==
    Take(sort_reverse(reranked_nodes(weights, ideal, query, nodes_)), top_k)

\* one rerank call; a call reads the weights and ideal_length and keeps
\* nothing for the next call, so one call per reranker is followed
rerank(query, nodes_, top_k) ==
    /\ rr_status = "ready"
    /\ rr_nodes = <<>> /\ rr_query = <<>> /\ rr_top_k = 0
    /\ rr_query' = query
    /\ rr_nodes' = nodes_
    /\ rr_top_k' = top_k
    /\ rr_signals' = signals(rr_weights, rr_ideal, query, nodes_)
    /\ rr_result' = rerank_nodes(rr_weights, rr_ideal, query, nodes_, top_k)
    /\ UNCHANGED <<rr_status, rr_args, rr_weights, rr_ideal, rerankOutside>>

RerankNext ==
    \/ \E w \in WeightTriples, ideal \in Ideals : reranker_init(w[1], w[2], w[3], ideal)
    \/ \E w \in WeightTriples, ideal \in Ideals :
         reranker_init_raises(w[1], w[2], w[3], ideal)
    \/ /\ rr_status = "ready" /\ rr_nodes = <<>>
       /\ \E query \in RerankQueries, nodes_ \in CandidateLists, top_k \in 0..MaxTopK :
            rerank(query, nodes_, top_k)

SpecRerank == Init /\ [][RerankNext]_vars

PositiveWeights == rr_args # <<>> /\ \A i \in 1..Len(rr_args) : rr_args[i] > 0

\* C24: for positive score, length and keyword weights the construction
\* succeeds, every effective weight is the caller's weight over their sum,
\* and the three effective weights sum to 1
C24_RerankWeightsNormalized ==
    PositiveWeights
        => /\ rr_status = "ready"
           /\ rr_weights.score = rr_args[1]
           /\ rr_weights.length = rr_args[2]
           /\ rr_weights.keyword = rr_args[3]
           /\ rr_weights.total > 0
           /\ rr_weights.score + rr_weights.length + rr_weights.keyword
                = rr_weights.total

C24_Witness ==
    rr_status = "ready" /\ rr_args = <<1, 2, 3>> /\ rr_weights.total = 6

\* C25: every final score rerank produces lies in [0,1], for candidates of
\* the keyword retriever, the vector retriever or the fusion and any
\* positive weights
C25_FinalScoreInUnitInterval ==
    PositiveWeights
        => \A i \in 1..Len(rr_result) :
              /\ rr_result[i].score >= 0
              /\ rr_result[i].score <= ScoreDen(rr_weights, rr_ideal, rr_query)

\* C26: the length signal is 1.0 for a text as long as ideal_length, 0.0
\* for an empty text and for a text at least twice as long, and it lies in
\* [0,1] for every length
C26_LengthSignal ==
    \A i \in 1..Len(rr_signals) :
        /\ Len(rr_nodes[i].text) = rr_ideal => rr_signals[i].length = rr_ideal
        /\ Len(rr_nodes[i].text) = 0 => rr_signals[i].length = 0
        /\ Len(rr_nodes[i].text) >= 2 * rr_ideal => rr_signals[i].length = 0
        /\ rr_signals[i].length >= 0
        /\ rr_signals[i].length <= rr_ideal

C26_Witness ==
    /\ Len(rr_signals) = 2
    /\ Len(rr_nodes[1].text) = rr_ideal
    /\ rr_signals[1].length = rr_ideal
    /\ Len(rr_nodes[2].text) = 2 * rr_ideal
    /\ rr_signals[2].length = 0

\* C27: rerank returns min(top_k, number of candidates) candidates, each
\* one an input candidate with its combined score, sorted by that score
\* descending, equal scores in their input order
C27_RerankTopK ==
    /\ Len(rr_result) = Min2(rr_top_k, Len(rr_nodes))
    /\ \A i \in 1..Len(rr_result) :
          \E j \in 1..Len(rr_nodes) :
             /\ rr_nodes[j].id = rr_result[i].id
             /\ rr_nodes[j].text = rr_result[i].text
             /\ rr_signals[j].combined = rr_result[i].score
    /\ \A i, j \in 1..Len(rr_result) :
          i < j => rr_result[i].score >= rr_result[j].score
    /\ \A i, j \in 1..Len(rr_nodes) :
          (i < j /\ rr_signals[i].combined = rr_signals[j].combined)
             => \A a, b \in 1..Len(rr_result) :
                   (rr_result[a].id = rr_nodes[i].id /\ rr_result[b].id = rr_nodes[j].id)
                      => a < b
    /\ \A i \in 1..Len(rr_nodes) :
          (\A a \in 1..Len(rr_result) : rr_result[a].id # rr_nodes[i].id)
             => \A a \in 1..Len(rr_result) :
                   \/ rr_result[a].score > rr_signals[i].combined
                   \/ /\ rr_result[a].score = rr_signals[i].combined
                      /\ \E j \in 1..(i - 1) : rr_nodes[j].id = rr_result[a].id

C27_Witness ==
    /\ Len(rr_nodes) = 2
    /\ rr_top_k = 2
    /\ rr_signals[1].combined = rr_signals[2].combined
    /\ rr_nodes[1].id = 4
    /\ rr_nodes[2].id = 1
    /\ IdsOf(rr_result) = <<4, 1>>

\* C28: signal (a) is the candidate's own input score; of two candidates
\* with the same text that both carry a score, the one with the lower
\* input score (0 included) never gets the higher final score
C28_LowerInputNeverHigher ==
    \A i, j \in 1..Len(rr_nodes) :
        (/\ rr_nodes[i].text = rr_nodes[j].text
         /\ rr_nodes[i].score # <<>>
         /\ rr_nodes[j].score # <<>>
         /\ rr_nodes[i].score[1] < rr_nodes[j].score[1])
            => /\ rr_signals[i].original = rr_nodes[i].score[1]
               /\ rr_signals[i].combined <= rr_signals[j].combined

\* ---------------------------------------------------------------------
\* UnifiedIngestionManager.get_documents: the list a caller keeps
\* ---------------------------------------------------------------------

\* docs = manager.get_documents(): "return self.documents" hands out the
\* store's own list object, not a copy
hold_documents ==
    /\ pc = "idle"
    /\ held' = [taken |-> TRUE, alias |-> TRUE, at_take |-> get_documents,
                frozen |-> <<>>]
    /\ UNCHANGED <<storeVars, callVars, outsideClear>>

\* what the caller reads in the list it holds: the store's documents while
\* the store still appends to that list
HeldNow == IF held.alias THEN documents ELSE held.frozen

SnapshotNext ==
    \/ add_pdfs_begin
    \/ add_urls_begin
    \/ add_csvs_begin
    \/ add_dir_fail
    \/ add_skip
    \/ add_insert
    \/ add_end
    \/ clear
    \/ hold_documents

SpecSnapshot == Init /\ [][SnapshotNext]_vars

\* C29: get_documents() returns a snapshot: a sequence obtained from it is
\* not changed by inserts or clear() performed on the store afterwards
C29_SnapshotUnchanged ==
    held.taken => HeldNow = held.at_take

\* ---------------------------------------------------------------------
\* frontend/app.py: the 'Build Knowledge Base' and 'Ask' buttons
\* ---------------------------------------------------------------------

\* the documents a new manager holds after ingesting what was uploaded
AppDocLists == {<<<<"a">>>>, <<<<"a", "a">>>>, <<<<"a">>, <<"a", "a">>>>}

appOutside == <<storeVars, callVars, taskVars, engineVars, bmVars, hybridVars,
                pipeVars, rerankVars, held>>

\* a browser session starts: init_session_state fills the empty session
\* state; the storage_streamlit directory is on disk and stays
init_session_state ==
    /\ ingestion_manager' = <<>>
    /\ query_engine' = NoEngine
    /\ indexed' = FALSE
    /\ asked' = NotAsked
    /\ UNCHANGED <<storage_streamlit, appOutside>>

\* 'Build Knowledge Base' with no file and no URL ("total_items == 0"),
\* or with uploads from which nothing could be extracted
\* ("len(documents) == 0"): the handler returns, and the manager has
\* already been replaced by a new, empty one
build_without_documents ==
    /\ ingestion_manager' = <<>>
    /\ UNCHANGED <<query_engine, indexed, storage_streamlit, asked, appOutside>>

\* 'Build Knowledge Base', an add_* call raises after the new manager has
\* taken some documents: the except branch reports the error
build_ingestion_raises(docs) ==
    /\ ingestion_manager' = docs
    /\ UNCHANGED <<query_engine, indexed, storage_streamlit, asked, appOutside>>

\* AdvancedQueryEngine(storage_dir="storage_streamlit") followed by
\* load_or_create_index(documents), all of it: a docstore on disk is
\* loaded and the documents are not looked at, otherwise the index is
\* created from them and persisted
load_or_create_index(store, docs) ==
    IF store.exists
    THEN [engine |-> [made |-> TRUE, index |-> store.nodes, loaded |-> TRUE,
                      retrievers |-> TRUE],
          store |-> store]
    ELSE [engine |-> [made |-> TRUE, index |-> from_documents(docs),
                      loaded |-> TRUE, retrievers |-> TRUE],
          store |-> [exists |-> TRUE, nodes |-> from_documents(docs)]]

\* 'Build Knowledge Base', the whole handler on the successful path
build_knowledge_base(docs) ==
    /\ ingestion_manager' = docs
    /\ query_engine' = load_or_create_index(storage_streamlit, docs).engine
    /\ storage_streamlit' = load_or_create_index(storage_streamlit, docs).store
    /\ indexed' = TRUE
    /\ UNCHANGED <<asked, appOutside>>

\* 'Build Knowledge Base', load_or_create_index raises before self.index
\* is assigned (the storage cannot be read, the embedding request fails):
\* the session keeps the new engine, indexed is not touched
build_index_raises_in_app(docs) ==
    /\ ingestion_manager' = docs
    /\ query_engine' = [made |-> TRUE, index |-> <<>>, loaded |-> FALSE,
                        retrievers |-> FALSE]
    /\ UNCHANGED <<indexed, storage_streamlit, asked, appOutside>>

\* 'Build Knowledge Base', load_or_create_index raises after self.index is
\* assigned (persist fails): no retriever has been set up
build_persist_raises_in_app(docs) ==
    /\ ~storage_streamlit.exists
    /\ ingestion_manager' = docs
    /\ query_engine' = [made |-> TRUE, index |-> from_documents(docs),
                        loaded |-> TRUE, retrievers |-> FALSE]
    /\ UNCHANGED <<indexed, storage_streamlit, asked, appOutside>>

\* 'Ask' with a question: the button exists only while indexed is True;
\* an exception of query is shown as an error
ask(mode) ==
    /\ indexed
    /\ asked' =
         IF ~query_engine.loaded
         THEN [status |-> "IndexNotLoaded", mode |-> mode, searched |-> <<>>]
         ELSE IF ~query_engine.retrievers
              THEN [status |-> "AttributeError", mode |-> mode, searched |-> <<>>]
              ELSE [status |-> "ok", mode |-> mode, searched |-> query_engine.index]
    /\ UNCHANGED <<ingestion_manager, query_engine, indexed, storage_streamlit,
                   appOutside>>

AppModes == {"hybrid", "vector", "bm25"}

AppNext ==
    \/ init_session_state
    \/ build_without_documents
    \/ \E docs \in AppDocLists : build_ingestion_raises(docs)
    \/ \E docs \in AppDocLists : build_knowledge_base(docs)
    \/ \E docs \in AppDocLists : build_index_raises_in_app(docs)
    \/ \E docs \in AppDocLists : build_persist_raises_in_app(docs)
    \/ \E mode \in AppModes : ask(mode)

SpecApp == Init /\ [][AppNext]_vars

\* C30: whenever indexed is True, the stored query_engine has a fully
\* built index and retrievers, built from the documents of the current
\* ingestion_manager (the one the statistics are read from), and no 'Ask'
\* has failed with 'Index not loaded'
C30_IndexedMeansCurrentIndex ==
    indexed
        => /\ query_engine.loaded
           /\ query_engine.retrievers
           /\ query_engine.index = from_documents(ingestion_manager)
           /\ asked.status # "IndexNotLoaded"
           /\ asked.status = "ok" => asked.searched = from_documents(ingestion_manager)

====
